---- MODULE Spec2Model ----
(***************************************************************************)
(* A model of MyReact (src/lib/MyReactImpl.ts): the element model, the     *)
(* fiber tree, the cooperative work loop, the positional reconciler, the   *)
(* commit phase and the hooks, together with the host tree (a DOM-like     *)
(* tree of nodes) the engine mutates.                                      *)
(*                                                                         *)
(* Objects live in arenas: a fiber is an index into `fibers`, a host node  *)
(* an index into `doms`; Null (0) is the absent reference (null or         *)
(* undefined).  JavaScript values are records tagged with their typeof.    *)
(***************************************************************************)
EXTENDS Integers, Sequences, FiniteSets, TLC

Null == 0

\* ------------------------------------------------------------------ bounds
\* render() calls plus listener-fired setter calls of one behaviour
MaxStarts == 3

\* the children of one createElement call are at most this many
MaxChildren == 3

\* ------------------------------------------------------- JavaScript values
Str(s) == [tag |-> "string", v |-> s]

Num(n) == [tag |-> "number", v |-> n]

NullValue == [tag |-> "null"]

Arr(items) == [tag |-> "array", items |-> items]

Undefined == [tag |-> "undefined"]

\* a function value: the closure `fn` created while fiber `fiber` rendered, which
\* captured the setter of that fiber's hook number `hook` (0: none)
Fn(fn, fiber, hook) == [tag |-> "function", fn |-> fn, fiber |-> fiber, hook |-> hook]

\* typeof v: elements, arrays and null are all "object"
TypeOf(v) == IF v.tag \in {"object", "array", "null"} THEN "object" ELSE v.tag

\* truthiness of a child entry (an element is truthy, null is not)
Truthy(v) == v.tag \notin {"null", "undefined"}

NoAttrs == [k \in {} |-> NullValue]

\* the type of a fiber or entry that has none (the root fiber, an array)
NoType == "undefined"

\* Number.prototype.toString on the counts the model reaches
NumToString(n) == IF n = 0 THEN "0" ELSE IF n = 1 THEN "1" ELSE IF n = 2 THEN "2"
               ELSE IF n = 3 THEN "3" ELSE IF n = 4 THEN "4" ELSE "5+"

\* ------------------------------------------------------------ Element model
RECURSIVE Flat(_)
\* Array.prototype.flat(): one level of nested arrays is spliced in
Flat(items) ==
    IF items = <<>> THEN <<>>
    ELSE LET h == Head(items) IN
         (IF h.tag = "array" THEN h.items ELSE <<h>>) \o Flat(Tail(items))

createTextElement(text) ==
    [tag |-> "object", type |-> "TEXT_ELEMENT",
     props |-> [attrs |-> [nodeValue |-> text], children |-> <<>>]]

createElement(type, attrs, children) ==
    LET flat == Flat(children) IN
    [tag |-> "object", type |-> type,
     props |-> [attrs |-> attrs,
                children |-> [i \in 1..Len(flat) |->
                                 IF TypeOf(flat[i]) = "object" THEN flat[i]
                                 ELSE createTextElement(flat[i])]]]

\* element.type of a list entry (undefined for an array or a non-element)
TypeOfEntry(e) == IF e.tag = "object" THEN e.type ELSE NoType

\* --------------------------------------------------------------- the state
VARIABLES
    fibers,          \* the fiber objects ever created, by index
    doms,            \* the host nodes ever created, by index
    nextUnitOfWork,  \* the fiber to process next, or Null
    currentRoot,     \* the root of the committed tree, or Null
    wipRoot,         \* the root of the work-in-progress tree, or Null
    deletions,       \* the pending-deletion list (old fibers)
    wipFiber,        \* the component fiber being (last) evaluated
    hookIndex,       \* the hook cursor of that evaluation
    loopAlive,       \* the work loop is still rescheduled by the host
    hostLog,         \* the host mutations of the latest commit, in order
    fxLog,           \* the effect-hook invocations of the latest commit, in order,
                     \* each with the number of host mutations applied before it
                     \* and the current root it ran under
    processed,       \* the fibers performUnitOfWork was applied to in this pass
    pass,            \* what happened since the latest commit (see NoPass)
    committed,       \* `processed`, `pass` and `deletions` as the latest commit found them
                     \* (`gone`: the fibers the commits so far found listed for deletion)
    shadow,          \* the engine that never works on a pass that is abandoned
    starts,          \* render() calls and dispatched events so far
    given,           \* the children the program has for a createElement call
    made             \* the element that call returned (Undefined before it)

\* the engine's state as one value, for the operators that transform it
State ==
    [fibers |-> fibers, doms |-> doms, nextUnitOfWork |-> nextUnitOfWork,
     currentRoot |-> currentRoot, wipRoot |-> wipRoot, deletions |-> deletions,
     wipFiber |-> wipFiber, hookIndex |-> hookIndex, loopAlive |-> loopAlive,
     hostLog |-> hostLog, fxLog |-> fxLog, processed |-> processed,
     pass |-> pass, committed |-> committed, thrown |-> FALSE]

\* no call and no work since the latest commit:
\*   calls      the actions handed to setters, in call order
\*   batch      how many of them came last with no work-loop invocation between
\*   looped     the work loop ran after the latest call
\*   yielded    the work loop suspended the pass that is in progress
\*   abandoned  a partly processed pass was replaced by a new one
NoPass ==
    [calls |-> <<>>, batch |-> 0, looped |-> TRUE, yielded |-> FALSE,
     abandoned |-> FALSE]

NoCommit == [n |-> 0, root |-> Null, order |-> <<>>, pass |-> NoPass,
             deletions |-> <<>>, gone |-> {}]

\* the host container handed to render(): a node that exists from the start
Container == 1

\* a second element of the host document that can be handed to render()
Container2 == 2

\* a value computed once and then used by what follows it, as a statement's result
\* is by the statements after it
Bind(value, Rest(_)) == CHOOSE r \in {Rest(v) : v \in {value}} : TRUE

\* a fresh fiber object literal: fields the literal omits are undefined
Fiber(type, props, dom, parent, alternate, effectTag) ==
    [type |-> type, props |-> props, dom |-> dom, parent |-> parent,
     child |-> Null, sibling |-> Null, alternate |-> alternate,
     effectTag |-> effectTag, hooks |-> <<>>]

\* ---------------------------------------------------------- the host tree
\* names the host refuses to create an element for
InvalidKinds == {"my tag"}

HostNode(kind) ==
    [kind |-> kind, attrs |-> NoAttrs, listeners |-> {}, children |-> <<>>,
     parent |-> Null]

Remove(seq, x) == SelectSeq(seq, LAMBDA y : y # x)

\* Node.appendChild: a node that has a parent is moved; it becomes the last child
appendChild(s, parent, child) ==
    LET old == s.doms[child].parent
        d1  == IF old = Null THEN s.doms
               ELSE [s.doms EXCEPT ![old].children = Remove(@, child)]
        d2  == [d1 EXCEPT ![parent].children = Append(@, child),
                          ![child].parent = parent]
    IN [s EXCEPT !.doms = d2,
                 !.hostLog = Append(@, [op |-> "append", node |-> child,
                                        parent |-> parent])]

\* Node.removeChild: throws NotFoundError when `child` is not a child of `parent`
removeChild(s, parent, child) ==
    IF s.doms[child].parent # parent THEN [s EXCEPT !.thrown = TRUE]
    ELSE [s EXCEPT !.doms = [@ EXCEPT ![parent].children = Remove(@, child),
                                      ![child].parent = Null],
                   !.hostLog = Append(@, [op |-> "remove", node |-> child,
                                          parent |-> parent])]

\* the attribute names of the model that start with "on"
isEvent(key) == key \in {"onClick", "onDblClick"}

isProperty(key) == key # "children" /\ ~isEvent(key)

\* name.toLowerCase().substring(2)
EventType(name) == IF name = "onClick" THEN "click" ELSE "dblclick"

\* (mutant) every key counts as changed
isNew_Always(prev, next, key) == TRUE

\* prev[key] !== next[key], a missing key reading undefined
isNew(prev, next, key) ==
    IF key \in DOMAIN prev /\ key \in DOMAIN next THEN prev[key] # next[key]
    ELSE key \in DOMAIN prev \/ key \in DOMAIN next

isGone(prev, next, key) == key \notin DOMAIN next

updateDom(s, dom, prevProps, nextProps) ==
    LET prev == prevProps.attrs
        next == nextProps.attrs
        unlisten == {k \in DOMAIN prev : isEvent(k) /\
                        (k \notin DOMAIN next \/ isNew(prev, next, k))}
        gone == {k \in DOMAIN prev : isProperty(k) /\ isGone(prev, next, k)}
        set == {k \in DOMAIN next : isProperty(k) /\ isNew(prev, next, k)}
        listen == {k \in DOMAIN next : isEvent(k) /\ isNew(prev, next, k)}
        node == s.doms[dom]
        attrs1 == [k \in DOMAIN node.attrs \cup gone \cup set |->
                      IF k \in set THEN next[k]
                      ELSE IF k \in gone THEN Str("")
                      ELSE node.attrs[k]]
        lst1 == (node.listeners \ {[type |-> EventType(k), fn |-> prev[k]] : k \in unlisten})
                   \cup {[type |-> EventType(k), fn |-> next[k]] : k \in listen}
        writes == Cardinality(unlisten) + Cardinality(gone) + Cardinality(set)
                     + Cardinality(listen)
    IN [s EXCEPT !.doms[dom].attrs = attrs1,
                 !.doms[dom].listeners = lst1,
                 !.hostLog = IF writes = 0 THEN @
                             ELSE Append(@, [op |-> "update", node |-> dom,
                                             parent |-> Null])]

\* createDom: a detached node of the fiber's kind with the fiber's attributes
\* (the node is the last of s.doms; writes to a node outside the host tree are
\* not host-tree mutations and are not logged)
\* document.createElement throws for a name that is not a valid element name
createDom(s, fiber) ==
    IF s.fibers[fiber].type \in InvalidKinds THEN [s EXCEPT !.thrown = TRUE]
    ELSE
    Bind([s EXCEPT !.doms = Append(@, HostNode(s.fibers[fiber].type))],
         LAMBDA s1 :
            [updateDom(s1, Len(s1.doms), [attrs |-> NoAttrs], s.fibers[fiber].props)
                EXCEPT !.hostLog = s.hostLog])

\* --------------------------------------------------------- reconciliation
\* (mutant) the fiber of a retained position does not take the old host node
updateFiber_NewDom(old, element, wip, oldFiber) ==
    Fiber(old.type, element.props, Null, wip, oldFiber, "UPDATE")

\* the fiber of a position whose kind is unchanged
updateFiber(old, element, wip, oldFiber) ==
    Fiber(old.type, element.props, old.dom, wip, oldFiber, "UPDATE")

\* (mutant) an element reuses whatever old fiber is at its position
sameType_AnyKind(s, oldFiber, element) ==
    oldFiber # Null /\ Truthy(element)

\* oldFiber && element && element.type === oldFiber.type
sameType(s, oldFiber, element) ==
    oldFiber # Null /\ Truthy(element)
        /\ TypeOfEntry(element) = s.fibers[oldFiber].type

RECURSIVE reconcileLoop(_, _, _, _, _, _)
\* one iteration of the while loop of reconcileChildren, and the rest of it
reconcileLoop(s, wip, elements, index, oldFiber, prevSibling) ==
    IF ~(index < Len(elements) \/ oldFiber # Null) THEN s
    ELSE
    LET element  == IF index < Len(elements) THEN elements[index + 1] ELSE Undefined
        old      == s.fibers[oldFiber]
        same     == sameType(s, oldFiber, element)
        newFiber == IF same \/ Truthy(element) THEN Len(s.fibers) + 1 ELSE Null
        nextOld  == IF oldFiber # Null THEN old.sibling ELSE Null
    IN
    Bind(IF same
         THEN [s EXCEPT !.fibers = Append(@, updateFiber(old, element, wip, oldFiber))]
         ELSE IF Truthy(element)
         THEN [s EXCEPT !.fibers = Append(@,
                  Fiber(element.type, element.props, Null, wip, Null, "PLACEMENT"))]
         ELSE s,
    LAMBDA s1 :
    Bind(IF oldFiber # Null /\ ~same
         THEN [s1 EXCEPT !.fibers[oldFiber].effectTag = "DELETION",
                         !.deletions = Append(@, oldFiber)]
         ELSE s1,
    LAMBDA s2 :
    Bind(IF index = 0 THEN [s2 EXCEPT !.fibers[wip].child = newFiber]
         ELSE IF Truthy(element) /\ prevSibling # Null
         THEN [s2 EXCEPT !.fibers[prevSibling].sibling = newFiber]
         ELSE s2,
    LAMBDA s3 :
         reconcileLoop(s3, wip, elements, index + 1, nextOld, newFiber))))

reconcileChildren(s, wip, elements) ==
    LET alt == s.fibers[wip].alternate
        oldFiber == IF alt # Null THEN s.fibers[alt].child ELSE Null
    IN reconcileLoop(s, wip, elements, 0, oldFiber, Null)

\* ------------------------------------------------------------------ hooks
Hook(tag, state, callback, deps, cancel, hasChanged) ==
    [tag |-> tag, state |-> state, queue |-> <<>>, callback |-> callback,
     deps |-> deps, cancel |-> cancel, hasChanged |-> hasChanged]

\* wipFiber.alternate.hooks[hookIndex], or Undefined
oldHookOf(s) ==
    LET alt == IF s.wipFiber = Null THEN Null ELSE s.fibers[s.wipFiber].alternate IN
    IF alt # Null /\ s.hookIndex < Len(s.fibers[alt].hooks)
    THEN s.fibers[alt].hooks[s.hookIndex + 1] ELSE Undefined

\* action(state) for the updater functions of the model
CallUpdater(action, state) ==
    IF action.fn = "inc" THEN Num(state.v + 1) ELSE state

\* (mutant) only the last action of the queue is applied
applyActions_LastOnly(state, actions) ==
    IF actions = <<>> THEN state
    ELSE LET a == actions[Len(actions)] IN
         IF TypeOf(a) = "function" THEN CallUpdater(a, state) ELSE a

RECURSIVE applyActions(_, _)
\* actions.forEach(action => hook.state = typeof action === 'function' ? ...)
applyActions(state, actions) ==
    IF actions = <<>> THEN state
    ELSE LET a == Head(actions) IN
         applyActions(IF TypeOf(a) = "function" THEN CallUpdater(a, state) ELSE a,
                      Tail(actions))

\* (mutant) the update is enqueued but no render is scheduled
setState_NoSchedule(s, fiber, hook, action) ==
    [s EXCEPT !.fibers[fiber].hooks[hook].queue = Append(@, action),
              !.pass.calls = Append(@, action),
              !.pass.batch = IF s.pass.looped THEN 1 ELSE @ + 1,
              !.pass.looped = FALSE]

\* the setState closure of hook number `hook` of fiber `fiber`, called
setState(s, fiber, hook, action) ==
    Bind([s EXCEPT !.fibers[fiber].hooks[hook].queue = Append(@, action),
                   !.pass.calls = Append(@, action),
                   !.pass.batch = IF s.pass.looped THEN 1 ELSE @ + 1,
                   !.pass.looped = FALSE],
    LAMBDA s1 :
       IF s1.currentRoot # Null
       THEN LET cur == s1.fibers[s1.currentRoot] IN
            [s1 EXCEPT !.fibers = Append(@, Fiber(NoType, cur.props, cur.dom, Null,
                                                  s1.currentRoot, "NONE")),
                       !.wipRoot = Len(s1.fibers) + 1,
                       !.nextUnitOfWork = Len(s1.fibers) + 1,
                       !.deletions = <<>>,
                       !.processed = <<>>,
                       !.pass.yielded = FALSE]
       ELSE s1)

\* useState(initial) called by the component being evaluated: the new state and
\* the returned pair
\* (mutant) the new hook starts with the queue of the old one
useState_KeepsQueue(s, initial) ==
    LET oldHook == oldHookOf(s)
        seed == IF oldHook # Undefined THEN oldHook.state ELSE initial
        actions == IF oldHook # Undefined THEN oldHook.queue ELSE <<>>
    IN Bind([Hook("STATE", applyActions(seed, actions), Undefined, Undefined,
                  Undefined, FALSE) EXCEPT !.queue = actions],
            LAMBDA hook :
               [s |-> [s EXCEPT !.fibers[s.wipFiber].hooks = Append(@, hook),
                                !.hookIndex = @ + 1],
                value |-> hook.state,
                setter |-> Fn("setState", s.wipFiber, s.hookIndex + 1)])

useState(s, initial) ==
    LET oldHook == oldHookOf(s)
        seed == IF oldHook # Undefined THEN oldHook.state ELSE initial
        actions == IF oldHook # Undefined THEN oldHook.queue ELSE <<>>
    IN Bind(Hook("STATE", applyActions(seed, actions), Undefined, Undefined,
                 Undefined, FALSE),
            LAMBDA hook :
               [s |-> [s EXCEPT !.fibers[s.wipFiber].hooks = Append(@, hook),
                                !.hookIndex = @ + 1],
                value |-> hook.state,
                setter |-> Fn("setState", s.wipFiber, s.hookIndex + 1)])

\* (mutant) an absent dependency array counts as unchanged
hasDepsChanged_AbsentUnchanged(prevDeps, nextDeps) ==
    IF nextDeps = Undefined THEN FALSE
    ELSE IF prevDeps = Undefined THEN TRUE
    ELSE IF Len(prevDeps.items) # Len(nextDeps.items) THEN TRUE
    ELSE \E i \in 1..Len(nextDeps.items) : nextDeps.items[i] # prevDeps.items[i]

hasDepsChanged(prevDeps, nextDeps) ==
    IF prevDeps = Undefined \/ nextDeps = Undefined THEN TRUE
    ELSE IF Len(prevDeps.items) # Len(nextDeps.items) THEN TRUE
    ELSE \E i \in 1..Len(nextDeps.items) : nextDeps.items[i] # prevDeps.items[i]

\* (mutant) the cleanup handle of the old hook is not carried over
useEffect_DropsCancel(s, callback, deps) ==
    LET oldHook == oldHookOf(s)
        hasChanged == hasDepsChanged(IF oldHook # Undefined THEN oldHook.deps
                                     ELSE Undefined, deps)
        hook == Hook("EFFECT", Undefined, callback, deps, Undefined, hasChanged)
    IN [s EXCEPT !.fibers[s.wipFiber].hooks = Append(@, hook),
                 !.hookIndex = @ + 1]

useEffect(s, callback, deps) ==
    LET oldHook == oldHookOf(s)
        hasChanged == hasDepsChanged(IF oldHook # Undefined THEN oldHook.deps
                                     ELSE Undefined, deps)
        hook == Hook("EFFECT", Undefined, callback, deps,
                     IF oldHook # Undefined THEN oldHook.cancel ELSE Undefined,
                     hasChanged)
    IN [s EXCEPT !.fibers[s.wipFiber].hooks = Append(@, hook),
                 !.hookIndex = @ + 1]

\* ------------------------------------------------- the rendered components
\* kinds that are functions (fiber.type instanceof Function)
FunctionKinds == {"Counter"}

\* what Counter returns for a count: a button showing the count whose listeners
\* increment and reset it; with marks = "yes" a list, the button followed by one
\* <em> per count
CounterView(attrs, fiber, count) ==
    LET button == createElement("button",
                     [onClick |-> Fn("handleIncrement", fiber, 1),
                      onDblClick |-> Fn("handleReset", fiber, 1)],
                     <<Str(NumToString(count.v))>>)
        marks  == [i \in 1..count.v |-> createElement("em", NoAttrs, <<>>)]
    IN IF attrs.marks = Str("yes") THEN Arr(<<button>> \o marks) ELSE button

\* the second argument of the Counter's useEffect: [count] as in the demo, [] for
\* a Counter written with an empty array, none for one written without the argument
EffectDeps(attrs, count) ==
    CASE attrs.effect = Str("once")   -> Arr(<<>>)
      [] attrs.effect = Str("always") -> Undefined
      [] OTHER                        -> Arr(<<count>>)

\* Counter (after the Counter and the TodoApp of the demo): one state hook and
\* one effect hook that depends on the count
Counter(s, fiber) ==
    LET attrs  == s.fibers[fiber].props.attrs
        effect == Fn(CASE attrs.effect = Str("sync") -> "syncEffect"
                       [] attrs.effect = Str("init") -> "initEffect"
                       [] OTHER -> "logEffect",
                     fiber, 1)
    IN Bind(useState(s, attrs.initial),
       LAMBDA u :
       \* a Counter written with if (count === 0) setCount(c => c + 1) in its body
       Bind(IF attrs.effect = Str("body") /\ u.value = Num(0)
            THEN setState(u.s, u.setter.fiber, u.setter.hook, Fn("inc", Null, 0))
            ELSE u.s,
       LAMBDA s1 : [s |-> useEffect(s1, effect, EffectDeps(attrs, u.value)),
                    ret |-> CounterView(attrs, fiber, u.value)]))

\* (fiber.type as Function)(fiber.props)
CallComponent(s, fiber) == Counter(s, fiber)

\* a function value of the model called: an event handler, an effect callback or
\* a cleanup handle; the new state and the value returned
CallFunction(s, f) ==
    CASE f.fn = "handleIncrement" ->
            [s |-> setState(s, f.fiber, f.hook, Fn("inc", Null, 0)), ret |-> Undefined]
      [] f.fn = "handleReset" ->
            [s |-> setState(s, f.fiber, f.hook, Num(0)), ret |-> Undefined]
      [] f.fn = "logEffect" ->
            [s |-> s, ret |-> Fn("cleanup", f.fiber, 0)]
      [] f.fn = "syncEffect" ->
            \* if (count === 1) setCount(c => c + 1), count the rendered value
            [s |-> IF s.fibers[f.fiber].hooks[f.hook].state = Num(1)
                   THEN setState(s, f.fiber, f.hook, Fn("inc", Null, 0)) ELSE s,
             ret |-> Undefined]
      [] f.fn = "initEffect" ->
            \* if (count === 0) setCount(c => c + 1)
            [s |-> IF s.fibers[f.fiber].hooks[f.hook].state = Num(0)
                   THEN setState(s, f.fiber, f.hook, Fn("inc", Null, 0)) ELSE s,
             ret |-> Undefined]
      [] OTHER -> [s |-> s, ret |-> Undefined]

\* ------------------------------------------------------------ units of work
updateFunctionComponent(s, fiber) ==
    Bind([s EXCEPT !.wipFiber = fiber, !.hookIndex = 0, !.fibers[fiber].hooks = <<>>],
    LAMBDA s1 :
    Bind(CallComponent(s1, fiber),
    LAMBDA r : reconcileChildren(r.s, fiber, Flat(<<r.ret>>))))

\* (mutant) no host node is created for a fiber that has none
updateHostComponent_NoDom(s, fiber) ==
    reconcileChildren(s, fiber, Flat(s.fibers[fiber].props.children))

updateHostComponent(s, fiber) ==
    Bind(IF s.fibers[fiber].dom = Null
         THEN Bind(createDom(s, fiber),
                   LAMBDA c : IF c.thrown THEN c
                              ELSE [c EXCEPT !.fibers[fiber].dom = Len(c.doms)])
         ELSE s,
         LAMBDA s1 : IF s1.thrown THEN s1
                     ELSE reconcileChildren(s1, fiber,
                                            Flat(s1.fibers[fiber].props.children)))

\* (mutant) only the fiber's own sibling is looked at, not its ancestors
nextSibling_NoClimb(s, fiber) ==
    IF fiber = Null THEN Null ELSE s.fibers[fiber].sibling

RECURSIVE nextSibling(_, _)
\* the sibling of the nearest fiber, from `fiber` upwards, that has one
nextSibling(s, fiber) ==
    IF fiber = Null THEN Null
    ELSE IF s.fibers[fiber].sibling # Null THEN s.fibers[fiber].sibling
    ELSE nextSibling(s, s.fibers[fiber].parent)

\* the state after the unit and the fiber returned
performUnitOfWork(s, fiber) ==
    Bind(IF s.fibers[fiber].type \in FunctionKinds
         THEN updateFunctionComponent(s, fiber)
         ELSE updateHostComponent(s, fiber),
         LAMBDA s1 :
            IF s1.thrown THEN [s |-> s1, next |-> Null]
            ELSE
            [s |-> [s1 EXCEPT !.processed = Append(@, fiber)],
             next |-> IF s1.fibers[fiber].child # Null THEN s1.fibers[fiber].child
                      ELSE nextSibling(s1, fiber)])

\* ------------------------------------------------------------ commit phase
RECURSIVE domParentFiberOf(_, _)
\* the nearest fiber, from `fiber` upwards, that has a host node
domParentFiberOf(s, fiber) ==
    IF s.fibers[fiber].dom # Null THEN fiber
    ELSE domParentFiberOf(s, s.fibers[fiber].parent)

RECURSIVE commitDeletion(_, _, _)
commitDeletion(s, fiber, domParent) ==
    IF s.fibers[fiber].dom # Null THEN removeChild(s, domParent, s.fibers[fiber].dom)
    ELSE IF s.fibers[fiber].child # Null
         THEN commitDeletion(s, s.fibers[fiber].child, domParent)
         ELSE s

RECURSIVE commitWork(_, _)
commitWork(s, fiber) ==
    IF fiber = Null \/ s.thrown THEN s
    ELSE
    LET f == s.fibers[fiber]
        domParent == s.fibers[domParentFiberOf(s, f.parent)].dom
    IN IF f.effectTag = "DELETION" THEN commitDeletion(s, fiber, domParent)
       ELSE Bind(IF f.effectTag = "PLACEMENT" /\ f.dom # Null
                 THEN appendChild(s, domParent, f.dom)
                 ELSE IF f.effectTag = "UPDATE" /\ f.dom # Null
                 THEN updateDom(s, f.dom, s.fibers[f.alternate].props, f.props)
                 ELSE s,
            LAMBDA s1 :
            Bind(commitWork(s1, f.child),
            LAMBDA s2 : commitWork(s2, f.sibling)))

RECURSIVE commitAll(_, _)
\* deletions.forEach(commitWork)
commitAll(s, list) ==
    IF list = <<>> THEN s
    ELSE Bind(commitWork(s, Head(list)), LAMBDA s1 : commitAll(s1, Tail(list)))

RECURSIVE runHooks(_, _, _)
\* fiber.hooks.forEach(...) of runEffects, from hook number i on
runHooks(s, fiber, i) ==
    IF i > Len(s.fibers[fiber].hooks) \/ s.thrown THEN s
    ELSE
    LET hook == s.fibers[fiber].hooks[i] IN
    IF hook.tag = "EFFECT" /\ hook.hasChanged
    THEN Bind(IF hook.cancel # Undefined
              THEN [CallFunction(s, hook.cancel).s EXCEPT
                       !.fxLog = Append(@, [run |-> "cleanup", fn |-> hook.cancel,
                                              after |-> Len(s.hostLog),
                                              root |-> s.currentRoot])]
              ELSE s,
         LAMBDA s1 :
         Bind(IF hook.callback # Undefined
              THEN CallFunction([s1 EXCEPT !.fxLog =
                       Append(@, [run |-> "callback", fn |-> hook.callback,
                                  after |-> Len(s1.hostLog),
                                  root |-> s1.currentRoot])],
                       hook.callback)
              ELSE [s |-> s1, ret |-> hook.cancel],
         LAMBDA r :
         Bind([r.s EXCEPT !.fibers[fiber].hooks[i].cancel = r.ret],
         LAMBDA s2 : runHooks(s2, fiber, i + 1))))
    ELSE runHooks(s, fiber, i + 1)

RECURSIVE runEffects(_, _)
runEffects(s, fiber) ==
    IF fiber = Null \/ s.thrown THEN s
    ELSE Bind(runHooks(s, fiber, 1),
         LAMBDA s1 :
         Bind(runEffects(s1, s.fibers[fiber].child),
         LAMBDA s2 : runEffects(s2, s.fibers[fiber].sibling)))

commitEffectHooks(s) ==
    IF s.wipRoot # Null /\ s.fibers[s.wipRoot].child # Null
    THEN runEffects(s, s.fibers[s.wipRoot].child)
    ELSE s

\* (mutant) the commit leaves the WIP root in place
commitRoot_KeepsWipRoot(s) ==
    Bind(commitAll([s EXCEPT !.hostLog = <<>>, !.fxLog = <<>>,
                             !.committed = [n |-> @.n + 1, root |-> s.wipRoot,
                                            order |-> s.processed, pass |-> s.pass,
                                            deletions |-> s.deletions,
                                            gone |-> @.gone \cup {s.deletions[i] : i \in 1..Len(s.deletions)}],
                             !.pass = NoPass],
                   s.deletions),
    LAMBDA s1 :
    Bind(IF s1.wipRoot # Null /\ s1.fibers[s1.wipRoot].child # Null
         THEN commitWork(s1, s1.fibers[s1.wipRoot].child)
         ELSE s1,
    LAMBDA s2 :
    Bind(IF s2.thrown THEN s2 ELSE commitEffectHooks(s2),
    LAMBDA s3 :
         IF s3.thrown THEN s3 ELSE [s3 EXCEPT !.currentRoot = s3.wipRoot])))

\* (mutant) the effect hooks run before the host is changed
commitRoot_EffectsFirst(s) ==
    Bind(commitEffectHooks([s EXCEPT !.hostLog = <<>>, !.fxLog = <<>>,
                             !.committed = [n |-> @.n + 1, root |-> s.wipRoot,
                                            order |-> s.processed, pass |-> s.pass,
                                            deletions |-> s.deletions,
                                            gone |-> @.gone \cup {s.deletions[i] : i \in 1..Len(s.deletions)}],
                             !.pass = NoPass]),
    LAMBDA s0 :
    Bind(commitAll(s0, s.deletions),
    LAMBDA s1 :
    Bind(IF s1.wipRoot # Null /\ s1.fibers[s1.wipRoot].child # Null
         THEN commitWork(s1, s1.fibers[s1.wipRoot].child)
         ELSE s1,
    LAMBDA s3 :
         IF s3.thrown THEN s3
         ELSE [s3 EXCEPT !.currentRoot = s3.wipRoot, !.wipRoot = Null])))

commitRoot(s) ==
    Bind(commitAll([s EXCEPT !.hostLog = <<>>, !.fxLog = <<>>,
                             !.committed = [n |-> @.n + 1, root |-> s.wipRoot,
                                            order |-> s.processed, pass |-> s.pass,
                                            deletions |-> s.deletions,
                                            gone |-> @.gone \cup {s.deletions[i] : i \in 1..Len(s.deletions)}],
                             !.pass = NoPass],
                   s.deletions),
    LAMBDA s1 :
    Bind(IF s1.wipRoot # Null /\ s1.fibers[s1.wipRoot].child # Null
         THEN commitWork(s1, s1.fibers[s1.wipRoot].child)
         ELSE s1,
    LAMBDA s2 :
    Bind(IF s2.thrown THEN s2 ELSE commitEffectHooks(s2),
    LAMBDA s3 :
         IF s3.thrown THEN s3
         ELSE [s3 EXCEPT !.currentRoot = s3.wipRoot, !.wipRoot = Null])))

\* --------------------------------------------------------------- work loop
\* nextUnitOfWork = performUnitOfWork(nextUnitOfWork)
unit(s) ==
    Bind(performUnitOfWork(s, s.nextUnitOfWork),
         \* an exception leaves before the assignment
         LAMBDA r : IF r.s.thrown THEN r.s
                    ELSE [r.s EXCEPT !.nextUnitOfWork = r.next])

RECURSIVE workUnits_YieldsFirst(_)
\* (mutant) the deadline is asked before each unit, the first one too
workUnits_YieldsFirst(s) ==
    IF s.nextUnitOfWork = Null \/ s.thrown THEN {s}
    ELSE {s} \cup Bind(unit(s), LAMBDA s1 : workUnits_YieldsFirst(s1))

RECURSIVE workUnits(_)
\* the states the while loop of workLoop can end in: after each unit
\* deadline.timeRemaining() reports either less than 1 (the loop yields) or not
workUnits(s) ==
    IF s.nextUnitOfWork = Null \/ s.thrown THEN {s}
    ELSE Bind(unit(s), LAMBDA s1 : {s1} \cup workUnits(s1))

\* (mutant) the commit does not wait for the units of work to run out
afterUnits_CommitsEarly(s) ==
    Bind(IF ~s.thrown /\ s.wipRoot # Null
         THEN commitRoot(s)
         ELSE [s EXCEPT !.pass.looped = TRUE,
                        !.pass.yielded = @ \/ s.nextUnitOfWork # Null],
         LAMBDA s1 : [s1 EXCEPT !.loopAlive = ~s1.thrown])

\* (mutant) a pass whose unit threw is committed as far as it got
afterUnits_CommitsDespiteThrow(s) ==
    Bind(IF s.wipRoot # Null /\ (s.thrown \/ s.nextUnitOfWork = Null)
         THEN commitRoot([s EXCEPT !.thrown = FALSE])
         ELSE [s EXCEPT !.pass.looped = TRUE,
                        !.pass.yielded = @ \/ s.nextUnitOfWork # Null],
         LAMBDA s1 : [s1 EXCEPT !.loopAlive = ~(s.thrown \/ s1.thrown)])

\* what follows the while loop
afterUnits(s) ==
    Bind(IF ~s.thrown /\ s.nextUnitOfWork = Null /\ s.wipRoot # Null
         THEN commitRoot(s)
         ELSE [s EXCEPT !.pass.looped = TRUE,
                        !.pass.yielded = @ \/ s.nextUnitOfWork # Null],
         \* an exception leaves before requestIdleCallback(workLoop)
         LAMBDA s1 : [s1 EXCEPT !.loopAlive = ~s1.thrown])

\* the states one invocation of workLoop can end in
workLoop(s) == {afterUnits(s1) : s1 \in workUnits(s)}

\* ------------------------------------------------------------ render entry
\* (mutant) the pending-deletion list is not reset
render_KeepsDeletions(s, element, container) ==
    LET root == Len(s.fibers) + 1 IN
    [s EXCEPT !.fibers = Append(@, Fiber(NoType,
                             [attrs |-> NoAttrs, children |-> <<element>>],
                             container, Null, s.currentRoot, "NONE")),
              !.wipRoot = root,
              !.nextUnitOfWork = root,
              !.processed = <<>>,
              !.pass.yielded = FALSE,
              !.pass.looped = FALSE]

render(s, element, container) ==
    LET root == Len(s.fibers) + 1 IN
    [s EXCEPT !.fibers = Append(@, Fiber(NoType,
                             [attrs |-> NoAttrs, children |-> <<element>>],
                             container, Null, s.currentRoot, "NONE")),
              !.wipRoot = root,
              !.deletions = <<>>,
              !.nextUnitOfWork = root,
              !.processed = <<>>,
              !.pass.yielded = FALSE,
              !.pass.looped = FALSE]

\* ------------------------------------------------------------- the program
CounterElement(marks, effect) ==
    createElement("Counter",
        [initial |-> Num(0), marks |-> Str(marks), effect |-> Str(effect)], <<>>)

Host(kind, children) == createElement(kind, NoAttrs, children)

\* the element trees handed to render()
Elements ==
    { Host("div", <<Host("span", <<>>), CounterElement("no", "log")>>),
      Host("div", <<Host("p", <<>>), CounterElement("no", "log")>>),
      Host("div", <<Host("span", <<>>), CounterElement("yes", "log"),
                    Host("span", <<>>)>>) }

RECURSIVE Attached(_, _)
\* the host node is in the tree under the container
Attached(ds, dom) ==
    dom = Container \/ (ds[dom].parent # Null /\ Attached(ds, ds[dom].parent))

RECURSIVE MaxDom(_, _)
\* the highest host node a fiber of indices 1..n holds (the containers at least)
MaxDom(fs, n) ==
    IF n = 0 THEN Container2
    ELSE LET m == MaxDom(fs, n - 1) IN IF fs[n].dom > m THEN fs[n].dom ELSE m

\* render() and setState overwrite wipRoot and nextUnitOfWork: the fibers of a
\* pass that did not commit, and the detached nodes created for them, are then
\* referenced by nothing and are garbage.  Their indices (those from wipRoot on:
\* a pass allocates its root first) are given back before the call.
Reclaim(s) ==
    IF s.wipRoot = Null \/ ~s.loopAlive THEN s
    ELSE LET kept == SubSeq(s.fibers, 1, s.wipRoot - 1) IN
         [s EXCEPT !.fibers = kept,
                   !.doms = SubSeq(s.doms, 1, MaxDom(kept, Len(kept))),
                   !.wipFiber = IF @ >= s.wipRoot THEN Null ELSE @,
                   !.pass.abandoned = @ \/ s.processed # <<>>,
                   !.wipRoot = Null,
                   !.nextUnitOfWork = Null]

Put(s) ==
    /\ fibers' = s.fibers
    /\ doms' = s.doms
    /\ nextUnitOfWork' = s.nextUnitOfWork
    /\ currentRoot' = s.currentRoot
    /\ wipRoot' = s.wipRoot
    /\ deletions' = s.deletions
    /\ wipFiber' = s.wipFiber
    /\ hookIndex' = s.hookIndex
    /\ loopAlive' = s.loopAlive
    /\ hostLog' = s.hostLog
    /\ fxLog' = s.fxLog
    /\ processed' = s.processed
    /\ pass' = s.pass
    /\ committed' = s.committed
    /\ UNCHANGED <<given, made>>

vars == <<fibers, doms, nextUnitOfWork, currentRoot, wipRoot, deletions,
          wipFiber, hookIndex, loopAlive, hostLog, fxLog, processed, pass,
          committed, shadow, starts, given, made>>

RECURSIVE workToEnd(_)
\* the while loop of workLoop when the host never reports less than 1
workToEnd(s) ==
    IF s.nextUnitOfWork = Null \/ s.thrown THEN s
    ELSE Bind(unit(s), LAMBDA s1 : workToEnd(s1))

\* one invocation of workLoop in a host without window.requestIdleCallback.  The
\* module's start-up code registers workLoop with the setTimeout fallback, whose
\* deadline reports timeRemaining() = 1, so the while loop never yields.  The name
\* requestIdleCallback in the last statement of workLoop is the global one, not
\* the const of the start-up block: in this host it is not defined, the call
\* throws a ReferenceError and nothing is registered.
workLoopFallback(s) ==
    Bind(workToEnd(s),
    LAMBDA s1 :
    Bind(afterUnits(s1),
    LAMBDA s2 : [s2 EXCEPT !.loopAlive = FALSE]))

Init ==
    /\ fibers = <<>>
    /\ doms = <<HostNode("container"), HostNode("container")>>
    /\ nextUnitOfWork = Null
    /\ currentRoot = Null
    /\ wipRoot = Null
    /\ deletions = <<>>
    /\ wipFiber = Null
    /\ hookIndex = 0
    /\ loopAlive = TRUE
    /\ hostLog = <<>>
    /\ fxLog = <<>>
    /\ processed = <<>>
    /\ pass = NoPass
    /\ committed = NoCommit
    /\ shadow = State
    /\ starts = 0
    /\ given = <<>>
    /\ made = Undefined

\* the application calls render(element, container)
Render ==
    /\ starts < MaxStarts
    /\ \E element \in Elements :
          /\ Put(render(Reclaim(State), element, Container))
          /\ shadow' = render(Reclaim(shadow), element, Container)
    /\ starts' = starts + 1

\* the host dispatches an event to a listener of a node of the host tree
FireEvent ==
    /\ starts < MaxStarts
    /\ \E dom \in 1..Len(doms) :
          /\ Attached(doms, dom)
          /\ \E l \in doms[dom].listeners :
                /\ Put(CallFunction(Reclaim(State), l.fn).s)
                /\ shadow' = CallFunction(Reclaim(shadow), l.fn).s
    /\ starts' = starts + 1

\* the host runs the idle callback
WorkLoop ==
    /\ loopAlive
    /\ nextUnitOfWork # Null \/ wipRoot # Null
    /\ \E s \in workLoop(State) :
          /\ Put(s)
          \* the shadow engine does a pass in one piece, and only a pass that commits
          /\ shadow' = IF s.committed.n # committed.n
                       THEN Bind(workToEnd(shadow), LAMBDA s1 : afterUnits(s1))
                       ELSE shadow
    /\ UNCHANGED starts

Next == Render \/ FireEvent \/ WorkLoop

Spec == Init /\ [][Next]_vars

\* the same program with a Counter whose effect callback calls its setter
ElementsFx ==
    { Host("div", <<Host("span", <<>>), CounterElement("no", "sync")>>),
      Host("div", <<Host("p", <<>>), CounterElement("no", "sync")>>) }

RenderFx ==
    /\ starts < MaxStarts
    /\ \E element \in ElementsFx :
          /\ Put(render(Reclaim(State), element, Container))
          /\ shadow' = render(Reclaim(shadow), element, Container)
    /\ starts' = starts + 1

NextFx == RenderFx \/ FireEvent \/ WorkLoop

SpecFx == Init /\ [][NextFx]_vars

\* the trees of a Counter that gives its effect an empty dependency array and of
\* one that gives it none; the second tree of each holds the Counter at another
\* position, after another kind, so that a render of it mounts the Counter anew
ElementsDeps ==
    UNION { { Host("div", <<Host("span", <<>>), CounterElement("no", effect)>>),
              Host("div", <<CounterElement("no", effect), Host("span", <<>>)>>) }
            : effect \in {"once", "always"} }

RenderDeps ==
    /\ starts < MaxStarts
    /\ \E element \in ElementsDeps :
          /\ Put(render(Reclaim(State), element, Container))
          /\ shadow' = render(Reclaim(shadow), element, Container)
    /\ starts' = starts + 1

NextDeps == RenderDeps \/ FireEvent \/ WorkLoop

SpecDeps == Init /\ [][NextDeps]_vars

\* the program that shows a Counter returning a list and then takes it away
ElementsUnmount ==
    { Host("div", <<Host("span", <<>>), CounterElement("yes", "log")>>),
      Host("div", <<Host("span", <<>>)>>) }

RenderUnmount ==
    /\ starts < MaxStarts
    /\ \E element \in ElementsUnmount :
          /\ Put(render(Reclaim(State), element, Container))
          /\ shadow' = render(Reclaim(shadow), element, Container)
    /\ starts' = starts + 1

NextUnmount == RenderUnmount \/ FireEvent \/ WorkLoop

SpecUnmount == Init /\ [][NextUnmount]_vars

\* the program that also renders a tree with an element the host cannot create
ElementsFail ==
    { Host("div", <<Host("span", <<>>), CounterElement("no", "log")>>),
      Host("div", <<Host("p", <<>>), Host("my tag", <<>>)>>) }

RenderFail ==
    /\ starts < MaxStarts
    /\ \E element \in ElementsFail :
          /\ Put(render(Reclaim(State), element, Container))
          /\ shadow' = render(Reclaim(shadow), element, Container)
    /\ starts' = starts + 1

NextFail == RenderFail \/ FireEvent \/ WorkLoop

SpecFail == Init /\ [][NextFail]_vars

\* the same program with an idle callback that runs whenever one is registered
FairSpecFail == SpecFail /\ WF_vars(WorkLoop)

\* the timer of the fallback fires: the host has no run-when-idle primitive
WorkLoopFallback ==
    /\ loopAlive
    /\ \E s \in {workLoopFallback(State)} :
          /\ Put(s)
          /\ shadow' = IF s.committed.n # committed.n
                       THEN Bind(workToEnd(shadow), LAMBDA s1 : afterUnits(s1))
                       ELSE shadow
    /\ UNCHANGED starts

NextFallback == Render \/ FireEvent \/ WorkLoopFallback

\* the program in a host without the run-when-idle primitive, with a timer that
\* fires whenever one is set
SpecFallback == Init /\ [][NextFallback]_vars /\ WF_vars(WorkLoopFallback)

\* container.innerHTML = "": the children of the node leave the host tree
clearChildren(s, parent) ==
    [s EXCEPT !.doms = [d \in 1..Len(s.doms) |->
                           IF d = parent THEN [s.doms[d] EXCEPT !.children = <<>>]
                           ELSE IF s.doms[d].parent = parent
                           THEN [s.doms[d] EXCEPT !.parent = Null]
                           ELSE s.doms[d]]]

\* the program that mounts into one of two containers, clearing it first or not
ElementsTwo ==
    { Host("div", <<Host("span", <<>>), CounterElement("no", "log")>>),
      Host("section", <<Host("span", <<>>)>>) }

RenderTwo ==
    /\ starts < MaxStarts
    /\ \E element \in ElementsTwo, container \in {Container, Container2} :
          /\ Put(render(Reclaim(State), element, container))
          /\ shadow' = render(Reclaim(shadow), element, container)
    /\ starts' = starts + 1

ClearContainer ==
    /\ \E container \in {Container, Container2} :
          /\ doms[container].children # <<>>
          /\ Put(clearChildren(State, container))
          /\ shadow' = clearChildren(shadow, container)
    /\ UNCHANGED starts

NextTwo == RenderTwo \/ ClearContainer \/ WorkLoop

SpecTwo == Init /\ [][NextTwo]_vars

\* the values the program passes as children: a string, a number, null (as a
\* conditional that is off gives it), an element, a list of those (as a map over
\* data gives it) and a list holding a list
Children ==
    { Str("a"), Num(1), NullValue, createElement("b", NoAttrs, <<>>),
      Arr(<<Str("x"), createElement("i", NoAttrs, <<>>)>>),
      Arr(<<Arr(<<Str("y")>>)>>) }

\* the sequences over a set of at most n entries
SeqsUpTo(S, n) == UNION {[1..k -> S] : k \in 0..n}

\* the program is about to call createElement("div", null, ...given)
InitCreate ==
    /\ fibers = <<>>
    /\ doms = <<HostNode("container"), HostNode("container")>>
    /\ nextUnitOfWork = Null
    /\ currentRoot = Null
    /\ wipRoot = Null
    /\ deletions = <<>>
    /\ wipFiber = Null
    /\ hookIndex = 0
    /\ loopAlive = TRUE
    /\ hostLog = <<>>
    /\ fxLog = <<>>
    /\ processed = <<>>
    /\ pass = NoPass
    /\ committed = NoCommit
    /\ shadow = State
    /\ starts = 0
    /\ given \in SeqsUpTo(Children, MaxChildren)
    /\ made = Undefined

CreateElement ==
    /\ made = Undefined
    /\ made' = createElement("div", NoAttrs, given)
    /\ UNCHANGED <<fibers, doms, nextUnitOfWork, currentRoot, wipRoot, deletions,
                   wipFiber, hookIndex, loopAlive, hostLog, fxLog, processed, pass,
                   committed, shadow, starts, given>>

NextCreate == CreateElement

SpecCreate == InitCreate /\ [][NextCreate]_vars

\* the programs of a Counter whose effect callback calls its setter when the
\* count is 1 (so in a later commit) and of one whose callback calls it when the
\* count is 0 (so in the first commit), under fair idle callbacks
ElementsSync ==
    { Host("div", <<Host("span", <<>>), CounterElement("no", "sync")>>),
      Host("div", <<Host("span", <<>>), CounterElement("no", "init")>>) }

RenderSync ==
    /\ starts < MaxStarts
    /\ \E element \in ElementsSync :
          /\ Put(render(Reclaim(State), element, Container))
          /\ shadow' = render(Reclaim(shadow), element, Container)
    /\ starts' = starts + 1

NextSync == RenderSync \/ FireEvent \/ WorkLoop

FairSpecSync == Init /\ [][NextSync]_vars /\ WF_vars(WorkLoop)

\* the program whose Counter takes its effect from a prop: first the callback that
\* calls the setter when the count is 0, then, in a tree with another first
\* child, the one that calls it when the count is 1
ElementsSwap ==
    { Host("div", <<Host("span", <<>>), CounterElement("no", "init")>>),
      Host("div", <<Host("p", <<>>), CounterElement("no", "sync")>>) }

RenderSwap ==
    /\ starts < MaxStarts
    /\ \E element \in ElementsSwap :
          /\ Put(render(Reclaim(State), element, Container))
          /\ shadow' = render(Reclaim(shadow), element, Container)
    /\ starts' = starts + 1

NextSwap == RenderSwap \/ FireEvent \/ WorkLoop

SpecSwap == Init /\ [][NextSwap]_vars

\* the program of a Counter that calls its setter while it is evaluated
ElementsBody ==
    { Host("div", <<Host("span", <<>>), CounterElement("no", "body")>>),
      Host("div", <<CounterElement("no", "body"), Host("span", <<>>)>>) }

RenderBody ==
    /\ starts < MaxStarts
    /\ \E element \in ElementsBody :
          /\ Put(render(Reclaim(State), element, Container))
          /\ shadow' = render(Reclaim(shadow), element, Container)
    /\ starts' = starts + 1

NextBody == RenderBody \/ FireEvent \/ WorkLoop

SpecBody == Init /\ [][NextBody]_vars

\* the program of two Counters: the first gives its effect no dependency array
\* and returns a cleanup handle, the second calls its setter from its effect
\* callback; a later tree has a <span> in the place of the first
ElementsPair ==
    { Host("div", <<CounterElement("no", "always"), CounterElement("no", "init")>>),
      Host("div", <<Host("span", <<>>), CounterElement("no", "sync")>>) }

RenderPair ==
    /\ starts < MaxStarts
    /\ \E element \in ElementsPair :
          /\ Put(render(Reclaim(State), element, Container))
          /\ shadow' = render(Reclaim(shadow), element, Container)
    /\ starts' = starts + 1

NextPair == RenderPair \/ FireEvent \/ WorkLoop

SpecPair == Init /\ [][NextPair]_vars

\* the program that renders one tree, again and again
ElementsFair ==
    { Host("div", <<Host("span", <<>>), CounterElement("no", "log")>>) }

RenderFair ==
    /\ starts < MaxStarts
    /\ \E element \in ElementsFair :
          /\ Put(render(Reclaim(State), element, Container))
          /\ shadow' = render(Reclaim(shadow), element, Container)
    /\ starts' = starts + 1

NextFair == RenderFair \/ FireEvent \/ WorkLoop

\* a program that renders a list of items and the list without its middle item
Item(id) == createElement("li", [id |-> Str(id)], <<Str(id)>>)

ElementsList ==
    { Host("ul", <<Item("a"), Item("b"), Item("c")>>),
      Host("ul", <<Item("a"), Item("c")>>) }

RenderList ==
    /\ starts < MaxStarts
    /\ \E element \in ElementsList :
          /\ Put(render(Reclaim(State), element, Container))
          /\ shadow' = render(Reclaim(shadow), element, Container)
    /\ starts' = starts + 1

NextList == RenderList \/ WorkLoop

SpecList == Init /\ [][NextList]_vars

\* the program that renders a list with a conditional item, on or off
ElementsCond ==
    { createElement("ul", NoAttrs, <<Item("a"), Item("b"), Item("c")>>),
      createElement("ul", NoAttrs, <<Item("a"), NullValue, Item("c")>>),
      createElement("ul", NoAttrs, <<NullValue, Item("b"), Item("c")>>) }

RenderCond ==
    /\ starts < MaxStarts
    /\ \E element \in ElementsCond :
          /\ Put(render(Reclaim(State), element, Container))
          /\ shadow' = render(Reclaim(shadow), element, Container)
    /\ starts' = starts + 1

NextCond == RenderCond \/ WorkLoop

SpecCond == Init /\ [][NextCond]_vars

\* requestIdleCallback(workLoop) is called at the end of every invocation that
\* returns normally, and the host runs a requested idle callback eventually
FairSpec == Init /\ [][NextFair]_vars /\ WF_vars(WorkLoop)

\* ----------------------------------------------------- views of the state
RECURSIVE PreorderFrom(_, _)
\* the fibers reached from `fiber` by child and sibling links, a fiber before
\* its child subtree and that before its next sibling
PreorderFrom(fs, fiber) ==
    IF fiber = Null THEN <<>>
    ELSE <<fiber>> \o PreorderFrom(fs, fs[fiber].child)
                   \o PreorderFrom(fs, fs[fiber].sibling)

\* the fibers of the tree under a root
TreeOf(fs, root) ==
    IF root = Null THEN {}
    ELSE LET order == PreorderFrom(fs, root) IN {order[i] : i \in 1..Len(order)}

RECURSIVE HostShape(_, _)
\* the kinds of the host tree under a node, in child order
HostShape(ds, dom) ==
    [kind |-> ds[dom].kind,
     children |-> [i \in 1..Len(ds[dom].children) |->
                      HostShape(ds, ds[dom].children[i])]]

RECURSIVE ElementShapes(_, _)
RECURSIVE ListShapes(_, _)
\* the host shapes an element stands for when the Counter holds `count`: a host
\* element is one node over the shapes of its children, a function-kind element
\* is replaced by the shapes of what it returns
ElementShapes(element, count) ==
    IF element.type \in FunctionKinds
    THEN ListShapes(Flat(<<CounterView(element.props.attrs, Null, count)>>), count)
    ELSE <<[kind |-> element.type,
            children |-> ListShapes(element.props.children, count)]>>

ListShapes(elements, count) ==
    IF elements = <<>> THEN <<>>
    ELSE ElementShapes(Head(elements), count) \o ListShapes(Tail(elements), count)

\* the state hook of the Counter of a tree (Undefined when it has none)
CounterHook(fs, root) ==
    LET cs == {f \in TreeOf(fs, root) : fs[f].type = "Counter" /\ fs[f].hooks # <<>>}
    IN IF cs = {} THEN Undefined ELSE fs[CHOOSE f \in cs : TRUE].hooks[1]

\* ---------------------------------------------------------------- claims

\* C1: after every commit the ordered tree of host nodes under the container
\* equals the element tree the committed pass rendered, every function-kind
\* element replaced by what it returned: same kinds, same child order.
C1_HostTreeMatchesElements ==
    currentRoot # Null =>
        HostShape(doms, Container).children =
            ListShapes(fibers[currentRoot].props.children,
                       CounterHook(fibers, currentRoot).state)

Range(seq) == {seq[i] : i \in 1..Len(seq)}

\* the host tree of an arena of nodes: the nodes under the container, as they are
HostTreeOf(ds) == [dom \in {d \in 1..Len(ds) : Attached(ds, d)} |-> ds[dom]]

HostTree == HostTreeOf(doms)

\* the fibers of the latest committed tree that hold a host node of their own
CommittedHostFibers ==
    {f \in TreeOf(fibers, committed.root) \ {committed.root} : fibers[f].dom # Null}

\* the host tree carries every effect of the latest committed pass: each host
\* fiber's node sits under the node of its nearest host ancestor and shows the
\* fiber's attributes and listeners, and no other node is left in the tree
HostCarriesCommit ==
    /\ \A f \in CommittedHostFibers :
          LET node  == doms[fibers[f].dom]
              attrs == fibers[f].props.attrs
          IN /\ node.parent = fibers[domParentFiberOf(State, fibers[f].parent)].dom
             /\ Attached(doms, fibers[f].dom)
             /\ \A k \in DOMAIN attrs : isProperty(k) => k \in DOMAIN node.attrs
                                                        /\ node.attrs[k] = attrs[k]
             /\ node.listeners = {[type |-> EventType(k), fn |-> attrs[k]] :
                                     k \in {x \in DOMAIN attrs : isEvent(x)}}
    /\ DOMAIN HostTree = {Container} \cup {fibers[f].dom : f \in CommittedHostFibers}

\* C2: the host tree changes only in a step in which commitRoot runs; commitRoot
\* runs for a WIP root only after every fiber of its tree was processed; and
\* between work-loop invocations the host tree carries all effects of the
\* latest committed pass and none of a later one.
C2_CommitIsWholeAndOnlyMutator ==
    /\ [](committed.n > 0 =>
            /\ Range(committed.order) = TreeOf(fibers, committed.root)
            /\ HostCarriesCommit)
    /\ [][HostTree' # HostTree => committed'.n = committed.n + 1]_vars

\* a later pass is suspended part-way with effects pending, after a commit
C2_Witness ==
    /\ committed.n > 0 /\ wipRoot # Null /\ nextUnitOfWork # Null
    /\ Len(processed) >= 2
    /\ \/ deletions # <<>>
       \/ \E f \in TreeOf(fibers, wipRoot) : fibers[f].effectTag = "PLACEMENT"

\* C3: in a pass that is not replaced, whatever the yields, performUnitOfWork is
\* applied to the fibers of the WIP tree in depth-first pre-order, each once:
\* while the pass is in progress the fibers processed, followed by the next unit,
\* are the first fibers of the tree in pre-order, and at the commit they are the
\* whole tree in pre-order.
C3_UnitsInPreorderOnce ==
    /\ wipRoot # Null =>
          LET order == PreorderFrom(fibers, wipRoot)
              done  == IF nextUnitOfWork = Null THEN processed
                       ELSE Append(processed, nextUnitOfWork)
          IN /\ Len(done) <= Len(order)
             /\ \A i \in 1..Len(done) : done[i] = order[i]
    /\ committed.n > 0 => committed.order = PreorderFrom(fibers, committed.root)

\* a pass that was suspended at least once has committed a tree with branches
C3_Witness ==
    /\ committed.n > 0 /\ committed.pass.yielded
    /\ Len(committed.order) >= 6
    /\ \E f \in Range(committed.order) :
          fibers[f].child # Null /\ fibers[f].sibling # Null

\* C4: when a partly processed pass is replaced by a new one, nothing of it is
\* committed: the host mutations and effect-hook invocations of every commit, and
\* the host tree it leaves, are those of an engine that received the same calls
\* and never worked on a pass that was abandoned.
C4_AbandonedPassLeavesNoTrace ==
    /\ hostLog = shadow.hostLog
    /\ fxLog = shadow.fxLog
    /\ HostTree = HostTreeOf(shadow.doms)

\* a commit that followed a partly processed, abandoned pass which had marked a
\* committed fiber for deletion
C4_Witness ==
    /\ committed.n >= 2 /\ committed.pass.abandoned /\ hostLog # <<>>
    /\ wipRoot = Null
    /\ \E f \in TreeOf(fibers, fibers[currentRoot].alternate) :
          fibers[f].effectTag = "DELETION" /\ fibers[f].dom # Null
                                            /\ Attached(doms, fibers[f].dom)

\* C5: currentRoot changes only inside commitRoot and is then the WIP root whose
\* whole tree was just processed and applied to the host; when commitRoot has
\* returned wipRoot is empty and the tree under currentRoot is the one the host
\* reflects, whatever the effect callbacks of that commit do.
C5_CurrentRootIsCommittedTree ==
    /\ committed.n = 0 => currentRoot = Null
    /\ committed.n > 0 =>
          /\ currentRoot = committed.root
          /\ Range(committed.order) = TreeOf(fibers, currentRoot)
    /\ wipRoot = Null => nextUnitOfWork = Null

RECURSIVE InCallOrder(_, _)
\* un(...u2(u1(state))...): a function update maps the value before it, any other
\* update replaces it
InCallOrder(state, updates) ==
    IF updates = <<>> THEN state
    ELSE InCallOrder(IF Head(updates).tag = "function"
                     THEN Num(state.v + 1) ELSE Head(updates),
                     Tail(updates))

\* the Counter fiber of a tree
CounterFiber(fs, root) ==
    CHOOSE f \in TreeOf(fs, root) : fs[f].type = "Counter"

\* the value the state hook had in the commit before the one of `root`: that of
\* the fiber this one was reconciled against, or the initial value
ValueBefore(fs, root) ==
    LET f == fs[CounterFiber(fs, root)] IN
    IF f.alternate # Null THEN fs[f.alternate].hooks[1].state
    ELSE f.props.attrs.initial

\* C6: when the setter of the latest committed render is called n times with
\* updates u1..un before the next render processes the component, the value of the
\* hook in the next commit is un(...u2(u1(s))...) for the committed value s.
C6_UpdatesAppliedInCallOrder ==
    committed.n > 0 =>
        CounterHook(fibers, committed.root).state =
            InCallOrder(ValueBefore(fibers, committed.root), committed.pass.calls)

\* a commit after a replacement and then a function update: the value is that of
\* the two in call order, and differs from the one of any other order
C6_Witness ==
    /\ committed.n >= 2 /\ Len(committed.pass.calls) = 2
    /\ committed.pass.calls[1].tag = "number"
    /\ committed.pass.calls[2].tag = "function"
    /\ CounterHook(fibers, committed.root).state = Num(1)

\* C7: k >= 1 setter calls with no work-loop invocation between them lead to one
\* pass that reaches commit: the step that commits consumes every call made since
\* the previous commit, its value reflects all of them, and it leaves no pass
\* behind, so that a further commit needs a further call.
C7_OneCommitPerBatch ==
    [][committed'.n # committed.n =>
          /\ committed'.n = committed.n + 1
          /\ wipRoot # Null /\ wipRoot' = Null /\ nextUnitOfWork' = Null
          /\ committed'.pass.calls = pass.calls /\ pass'.calls = <<>>
          /\ Len(pass.calls) >= pass.batch
          /\ pass.calls # <<>> =>
                CounterHook(fibers', currentRoot').state =
                    InCallOrder(CounterHook(fibers, currentRoot).state, pass.calls)]_vars

\* one commit has followed two setter calls that had no work-loop invocation
\* between them, and the engine is idle
C7_Witness ==
    /\ committed.n = 2 /\ committed.pass.batch = 2
    /\ wipRoot = Null /\ nextUnitOfWork = Null

\* an update handed to a setter is waiting for a commit
Pending == pass.calls # <<>>

\* the latest commit consumed every update handed to a setter and shows them
Incorporated ==
    /\ pass.calls = <<>> /\ committed.pass.calls # <<>>
    /\ CounterHook(fibers, currentRoot).state =
          InCallOrder(ValueBefore(fibers, currentRoot), committed.pass.calls)

\* C8: a setter called between work-loop invocations, also while a render is
\* partly processed, enqueues its update and schedules a render from currentRoot:
\* under fair idle callbacks a later commit shows a value that incorporates it.
C8_UpdateReachesCommit == Pending ~> Incorporated

\* a commit that incorporates an update whose setter call interrupted a partly
\* processed render
C8_Witness ==
    /\ Incorporated /\ committed.pass.abandoned
    /\ committed.pass.calls[Len(committed.pass.calls)].tag = "function"

RECURSIVE Chain(_, _)
\* a fiber and its later siblings, in order
Chain(fs, fiber) ==
    IF fiber = Null THEN <<>> ELSE <<fiber>> \o Chain(fs, fs[fiber].sibling)

RECURSIVE Retained(_, _, _)
\* the pairs <<new fiber, old fiber>> of the positions of two trees at which the
\* kind is the same, as it is at every position above them
Retained(fs, new, old) ==
    LET nc == Chain(fs, fs[new].child)
        oc == Chain(fs, fs[old].child)
    IN {<<new, old>>} \cup
       UNION {IF i <= Len(oc) /\ fs[nc[i]].type = fs[oc[i]].type
              THEN Retained(fs, nc[i], oc[i]) ELSE {} : i \in 1..Len(nc)}

\* two commits at least, and nothing started since the latest
AfterLaterCommit ==
    /\ committed.n >= 2 /\ loopAlive
    /\ wipRoot = Null /\ nextUnitOfWork = Null

\* the host nodes the tree under a root holds
DomsOf(fs, root) == {fs[f].dom : f \in TreeOf(fs, root)} \ {Null}

\* C9: across two consecutive commits, at every position where the kind is the
\* same the committed fiber holds the host node the old fiber held and only an
\* UPDATE effect is emitted for it; at every other position the committed host
\* node is one the previous tree never held.
C9_HandleKeptIffKindKept ==
    AfterLaterCommit =>
        LET old  == fibers[currentRoot].alternate
            kept == Retained(fibers, currentRoot, old)
        IN /\ \A p \in kept :
                 /\ fibers[p[1]].dom = fibers[p[2]].dom
                 /\ p[1] # currentRoot => fibers[p[1]].effectTag = "UPDATE"
                 /\ \A i \in 1..Len(hostLog) :
                       hostLog[i].node = fibers[p[1]].dom => hostLog[i].op = "update"
           /\ \A f \in TreeOf(fibers, currentRoot) \ {p[1] : p \in kept} :
                 /\ fibers[f].effectTag = "PLACEMENT"
                 /\ fibers[f].dom \notin DomsOf(fibers, old)

\* a commit that kept the button of the Counter and replaced the node of a
\* position whose kind changed
C9_Witness ==
    /\ AfterLaterCommit /\ deletions # <<>>
    /\ LET old  == fibers[currentRoot].alternate
           kept == Retained(fibers, currentRoot, old)
       IN /\ \E p \in kept : fibers[p[1]].type = "button" /\ fibers[p[1]].dom # Null
          /\ \E f \in TreeOf(fibers, currentRoot) \ {p[1] : p \in kept} :
                /\ fibers[f].dom # Null
                /\ \E o \in TreeOf(fibers, old) :
                      fibers[o].effectTag = "DELETION" /\ fibers[o].dom # Null

\* the latest commit is of the element tree of the commit before it, and no
\* setter was called between the two
SameTreeTwice ==
    /\ AfterLaterCommit
    /\ fibers[currentRoot].props = fibers[fibers[currentRoot].alternate].props
    /\ committed.pass.calls = <<>>

\* the fiber of the committed tree that holds a host node
FiberOfDom(dom) == CHOOSE f \in TreeOf(fibers, currentRoot) : fibers[f].dom = dom

\* C10 (as stated): rendering and committing the same element tree twice in a row
\* emits no placement, update or deletion effect in the second render and performs
\* no host-tree mutation in the second commit.
C10_SecondCommitDoesNothing ==
    SameTreeTwice =>
        /\ \A f \in TreeOf(fibers, currentRoot) :
              fibers[f].effectTag \notin {"PLACEMENT", "UPDATE", "DELETION"}
        /\ deletions = <<>>
        /\ hostLog = <<>>

\* C10 (amended): rendering and committing the same element tree twice in a row
\* emits no placement and no deletion in the second render, every fiber below the
\* root being tagged UPDATE; the second commit appends and removes no host node,
\* and writes to a node only if an attribute or listener of it is not identical
\* to the one of the first render.
C10_SecondCommitOnlyUpdates ==
    SameTreeTwice =>
        /\ \A f \in TreeOf(fibers, currentRoot) \ {currentRoot} :
              fibers[f].effectTag = "UPDATE"
        /\ deletions = <<>>
        /\ \A i \in 1..Len(hostLog) :
              /\ hostLog[i].op = "update"
              /\ LET f == fibers[FiberOfDom(hostLog[i].node)] IN
                 f.props.attrs # fibers[f.alternate].props.attrs

\* a second commit of the same tree that has written to the host: the listeners
\* of the button, which the component created again
C10_Witness ==
    /\ SameTreeTwice /\ hostLog # <<>>
    /\ \E i \in 1..Len(hostLog) : doms[hostLog[i].node].kind = "button"

\* the element list a processed fiber was reconciled with: what its component
\* returned, or its children
ElementsOf(fs, fiber) ==
    IF fs[fiber].type \in FunctionKinds
    THEN Flat(<<CounterView(fs[fiber].props.attrs, fiber, fs[fiber].hooks[1].state)>>)
    ELSE Flat(fs[fiber].props.children)

\* the old sibling chain a fiber is reconciled against
OldChain(fs, fiber) ==
    IF fs[fiber].alternate = Null THEN <<>>
    ELSE Chain(fs, fs[fs[fiber].alternate].child)

\* the old fibers of the positions of a processed fiber that have no element of
\* the same kind
Unmatched(fs, fiber) ==
    LET els == ElementsOf(fs, fiber)
        oc  == OldChain(fs, fiber)
    IN {oc[i] : i \in {j \in 1..Len(oc) :
                          j > Len(els) \/ els[j].type # fs[oc[j]].type}}

\* C11: reconcileChildren compares the element list with the old sibling chain
\* index by index: same kind gives a fiber tagged UPDATE with the new attributes,
\* the old host node and alternate = old fiber; an element otherwise gives a fiber
\* tagged PLACEMENT with no host node and no alternate; an old fiber without an
\* element of its kind is tagged DELETION and put on the pending-deletion list,
\* and nothing else is.
C11_ReconcileByIndex ==
    wipRoot # Null =>
        /\ \A w \in Range(processed) :
              LET els == ElementsOf(fibers, w)
                  nc  == Chain(fibers, fibers[w].child)
                  oc  == OldChain(fibers, w)
              IN /\ Len(nc) = Len(els)
                 /\ \A i \in 1..Len(els) :
                       LET n == fibers[nc[i]] IN
                       /\ n.type = els[i].type /\ n.props = els[i].props
                       /\ n.parent = w
                       /\ IF i <= Len(oc) /\ els[i].type = fibers[oc[i]].type
                          THEN /\ n.effectTag = "UPDATE"
                               /\ n.alternate = oc[i]
                               /\ n.dom = fibers[oc[i]].dom
                          ELSE /\ n.effectTag = "PLACEMENT"
                               /\ n.alternate = Null
                               /\ nc[i] \notin Range(processed) => n.dom = Null
                 /\ \A o \in Unmatched(fibers, w) : fibers[o].effectTag = "DELETION"
        /\ Range(deletions) = UNION {Unmatched(fibers, w) : w \in Range(processed)}
        /\ Len(deletions) = Cardinality(Range(deletions))

\* a pass in progress has reconciled a list in which one position kept its kind,
\* one changed it, and a list that lost its last item
C11_Witness ==
    /\ wipRoot # Null
    /\ \E w \in Range(processed) :
          /\ Unmatched(fibers, w) # {}
          /\ \E c \in Range(Chain(fibers, fibers[w].child)) :
                fibers[c].effectTag = "UPDATE"
          /\ \E c \in Range(Chain(fibers, fibers[w].child)) :
                fibers[c].effectTag = "PLACEMENT"
    /\ \E w \in Range(processed) :
          /\ Len(OldChain(fibers, w)) > Len(ElementsOf(fibers, w))
          /\ ElementsOf(fibers, w) # <<>>

\* the ids of the items of the list a root renders
ItemIds(fs, root) ==
    LET items == Chain(fs, fs[fs[root].child].child)
    IN [i \in 1..Len(items) |-> fs[items[i]].props.attrs.id.v]

\* the latest commit is of the list a, c and the one before it of a, b, c
MiddleRemoved ==
    /\ AfterLaterCommit
    /\ ItemIds(fibers, currentRoot) = <<"a", "c">>
    /\ ItemIds(fibers, fibers[currentRoot].alternate) = <<"a", "b", "c">>

\* C12: for a committed list a, b, c, re-rendering with the middle item removed
\* yields one deletion, placed on the old middle fiber, whose host node leaves the
\* host tree, and update effects on the fibers of a and c, whose host nodes stay.
C12_MiddleRemovalDeletesMiddle ==
    MiddleRemoved =>
        LET old == Chain(fibers, fibers[fibers[fibers[currentRoot].alternate].child].child)
            new == Chain(fibers, fibers[fibers[currentRoot].child].child)
        IN /\ deletions = <<old[2]>>
           /\ \A i \in 1..2 : fibers[new[i]].effectTag = "UPDATE"
           /\ ~Attached(doms, fibers[old[2]].dom)
           /\ Attached(doms, fibers[old[1]].dom)
           /\ Attached(doms, fibers[old[3]].dom)

\* a commit has happened and nothing has started since
AfterCommit ==
    /\ committed.n >= 1 /\ loopAlive
    /\ wipRoot = Null /\ nextUnitOfWork = Null

\* the effect hook of the Counter of a tree (its second hook)
EffectHook(fs, root) == fs[CounterFiber(fs, root)].hooks[2]

\* what the last commit invoked, in order
Invocations ==
    [i \in 1..Len(fxLog) |-> [run |-> fxLog[i].run, fn |-> fxLog[i].fn]]

\* the invocations an effect hook is due at its commit, given the hook of the
\* same position of the previous commit: none when the dependencies are the same,
\* else the old cleanup, if there is one, and then the callback
DueInvocations(old, new) ==
    IF Len(old.deps.items) = Len(new.deps.items)
       /\ \A i \in 1..Len(new.deps.items) : old.deps.items[i] = new.deps.items[i]
    THEN <<>>
    ELSE (IF old.cancel # Undefined THEN <<[run |-> "cleanup", fn |-> old.cancel]>>
          ELSE <<>>)
         \o <<[run |-> "callback", fn |-> new.callback]>>

\* C13: for the effect hook of a retained component, a commit whose dependency
\* sequence is element-wise the previous one invokes neither callback nor cleanup
\* and carries the cleanup handle forward; a commit whose sequence changed invokes
\* the previous cleanup, when there is one, before the new callback, and stores
\* what the callback returned as the new cleanup.
C13_EffectFollowsDeps ==
    (AfterCommit /\ fibers[CounterFiber(fibers, currentRoot)].alternate # Null) =>
        LET new == EffectHook(fibers, currentRoot)
            old == EffectHook(fibers, fibers[currentRoot].alternate)
        IN /\ Invocations = DueInvocations(old, new)
           /\ new.cancel = IF fxLog = <<>> THEN old.cancel
                           ELSE CallFunction(State, new.callback).ret

\* a commit has run the cleanup stored by the commit before it and then the
\* callback of the new render, and has stored a new cleanup
C13_Witness ==
    /\ AfterCommit /\ Len(fxLog) = 2
    /\ fxLog[1].run = "cleanup" /\ fxLog[2].run = "callback"
    /\ EffectHook(fibers, currentRoot).cancel # fxLog[1].fn
    /\ EffectHook(fibers, currentRoot).cancel # Undefined

\* the callback invocations of an effect among the invocations of the last commit
CallbacksOf(fn) ==
    Cardinality({i \in 1..Len(fxLog) :
                    Invocations[i] = [run |-> "callback", fn |-> fn]})

\* the Counter of the committed tree was written with the given effect, and so
\* was the one it replaced, if it replaced one
CommittedWith(effect) ==
    /\ AfterCommit
    /\ LET c == fibers[CounterFiber(fibers, currentRoot)]
       IN /\ c.props.attrs.effect = Str(effect)
          /\ c.alternate # Null => fibers[c.alternate].props.attrs.effect = Str(effect)

\* C14: an effect with an empty dependency array runs its callback once at the
\* first commit of its component and at no later commit of the retained
\* component; an effect without a dependency array runs its callback at every
\* commit of its component.
C14_EmptyOnceAbsentAlways ==
    LET c == CounterFiber(fibers, currentRoot) IN
    /\ CommittedWith("once") =>
          CallbacksOf(fibers[c].hooks[2].callback) =
              IF fibers[c].alternate = Null THEN 1 ELSE 0
    /\ CommittedWith("always") =>
          CallbacksOf(fibers[c].hooks[2].callback) = 1

\* a third commit of a retained Counter whose effect has an empty array, so two
\* commits in a row that ran nothing
C14_Witness ==
    /\ CommittedWith("once") /\ committed.n >= 3
    /\ LET c == fibers[CounterFiber(fibers, currentRoot)]
       IN /\ c.alternate # Null /\ fibers[c.alternate].alternate # Null
          /\ fibers[fibers[c.alternate].alternate].props.attrs.effect = Str("once")
          /\ c.hooks[1].state # Num(0)
    /\ fxLog = <<>>

\* C15: in a commit every effect-hook cleanup and callback runs after all host
\* removals, appends and attribute updates of the render have been applied, so no
\* host mutation follows an effect invocation, and while currentRoot is not yet
\* the new tree.
C15_EffectsAfterHostBeforeSwitch ==
    \A i \in 1..Len(fxLog) :
        /\ fxLog[i].after = Len(hostLog)
        /\ fxLog[i].root # committed.root
        /\ committed.root # Null

\* a commit that removed, appended and updated host nodes and ran a cleanup and
\* a callback
C15_Witness ==
    /\ AfterCommit /\ currentRoot = committed.root
    /\ \A op \in {"remove", "append", "update"} :
          \E i \in 1..Len(hostLog) : hostLog[i].op = op
    /\ \E i, j \in 1..Len(fxLog) : fxLog[i].run = "cleanup" /\ fxLog[j].run = "callback"

\* the host nodes of the fibers of a subtree
SubtreeDoms(fs, fiber) ==
    {fs[f].dom : f \in {fiber} \cup TreeOf(fs, fs[fiber].child)} \ {Null}

\* C16: after a commit no host node of a fiber of the pending-deletion list, or of
\* a fiber below it, is attached to the host tree, also when a deleted component
\* returned several children.
C16_DeletedSubtreesDetached ==
    AfterCommit =>
        \A i \in 1..Len(deletions) :
            \A dom \in SubtreeDoms(fibers, deletions[i]) : ~Attached(doms, dom)

\* C17: when node creation throws while a unit of work is processed, the
\* exception leaves the work loop: that invocation commits nothing, and from then
\* on currentRoot and the host tree stay what the last successful commit left.
C17_FailedRenderCommitsNothing ==
    [][~loopAlive' =>
          /\ committed' = committed
          /\ currentRoot' = currentRoot
          /\ HostTreeOf(doms') = HostTree]_vars

\* a pass over a committed tree has stopped, after some units, at the fiber whose
\* node the host refused to create
C17_Witness ==
    /\ ~loopAlive /\ committed.n >= 1 /\ currentRoot = committed.root
    /\ wipRoot # Null /\ nextUnitOfWork # Null
    /\ fibers[nextUnitOfWork].type \in InvalidKinds
    /\ fibers[nextUnitOfWork].dom = Null
    /\ Len(processed) >= 2

RECURSIVE Creatable(_)
\* the host can create a node for the element and for every element below it
Creatable(element) ==
    /\ element.type \notin InvalidKinds
    /\ \A i \in 1..Len(element.props.children) : Creatable(element.props.children[i])

\* the work loop was left by an exception, and render() or a setter has since
\* started a pass over a tree the host can create
RestartedAfterFailure ==
    /\ ~loopAlive
    /\ wipRoot # Null /\ nextUnitOfWork = wipRoot
    /\ \A i \in 1..Len(fibers[wipRoot].props.children) :
          Creatable(fibers[wipRoot].props.children[i])

\* the pass in progress has been committed, or replaced by one over a tree the
\* host cannot create
CommittedOrFailing ==
    \/ wipRoot = Null
    \/ \E i \in 1..Len(fibers[wipRoot].props.children) :
          ~Creatable(fibers[wipRoot].props.children[i])

\* C18: after a render was aborted by a failure of node creation, a render() or
\* setter call that follows starts a pass which, under fair idle callbacks and
\* without a further failure, is eventually committed.
C18_RestartAfterFailureCommits == RestartedAfterFailure ~> CommittedOrFailing

\* C19: in a host without the run-when-idle primitive the work loop runs from a
\* deferred fallback and is rescheduled after each invocation, so that a render,
\* whenever it is started, is eventually processed and committed.
C19_FallbackKeepsCommitting == (wipRoot # Null) ~> (wipRoot = Null)

\* an invocation of the work loop that processed units and did not commit
UnitsWithoutCommit ==
    /\ starts' = starts /\ committed' = committed
    /\ processed' # processed
    /\ currentRoot # Null

\* C20: while a pass builds its tree (units of work, reconciliation, hooks) no
\* field of a fiber or hook of the committed tree is written, so the committed
\* tree is the same before and after a pass that is abandoned.
C20_RenderPhaseLeavesCommittedTree ==
    [][UnitsWithoutCommit =>
          \A f \in TreeOf(fibers, currentRoot) : fibers'[f] = fibers[f]]_vars

RECURSIVE AttachedTo(_, _, _)
\* the host node is the container or is in the tree under it
AttachedTo(ds, dom, container) ==
    dom = container \/ (ds[dom].parent # Null /\ AttachedTo(ds, ds[dom].parent, container))

\* the count the Counter of a tree shows (0 for a tree without a Counter)
CountOf(fs, root) ==
    IF CounterHook(fs, root) = Undefined THEN Num(0) ELSE CounterHook(fs, root).state

\* the container of the committed tree shows the element the tree was rendered
\* from, and every host node of the tree is beneath it
ShownInItsContainer ==
    LET container == fibers[currentRoot].dom IN
    /\ HostShape(doms, container).children =
          ListShapes(fibers[currentRoot].props.children, CountOf(fibers, currentRoot))
    /\ \A f \in CommittedHostFibers : AttachedTo(doms, fibers[f].dom, container)

\* C21: after render(element, container2) was called and committed while a tree
\* rendered into another container, or into the same container since cleared, was
\* committed, the host children of container2 match the element and every host
\* node of the rendered tree is attached beneath container2.
C21_RenderIntoOtherContainer ==
    [][(committed.n >= 1 /\ committed'.n = committed.n + 1 /\ loopAlive') =>
          ShownInItsContainer']_vars

\* C22: in every committed tree a fiber has a host node exactly if its kind is not
\* a function: the root, every host-tag fiber and every text fiber has one, and no
\* component fiber has one.
C22_HostNodeIffNotFunction ==
    committed.n > 0 =>
        \A f \in TreeOf(fibers, committed.root) :
            (fibers[f].dom # Null) <=> (fibers[f].type \notin FunctionKinds)

\* a later commit of a tree with a component, a text fiber, a host fiber that took
\* over its node and a host fiber that got a new one
C22_Witness ==
    /\ AfterLaterCommit /\ currentRoot = committed.root
    /\ \E c, t, u, p \in TreeOf(fibers, committed.root) :
          /\ fibers[c].type \in FunctionKinds /\ fibers[c].dom = Null
          /\ fibers[t].type = "TEXT_ELEMENT" /\ fibers[t].dom # Null
          /\ fibers[u].effectTag = "UPDATE" /\ fibers[u].type = "div"
          /\ fibers[u].dom = fibers[fibers[u].alternate].dom
          /\ fibers[p].effectTag = "PLACEMENT" /\ fibers[p].dom # Null

\* an Element: an object with a type and props
IsElement(v) == v.tag = "object"

\* C23: createElement returns an element whose child list is the children
\* flattened, in order, and every entry of it is an Element: a child that is an
\* Element is kept, any other child (a string, a number, null, a list within a
\* list) is replaced by a text Element that carries it.
C23_ChildrenAreElements ==
    made # Undefined =>
        LET flat == Flat(given)
            kids == made.props.children
        IN /\ Len(kids) = Len(flat)
           /\ \A i \in 1..Len(kids) :
                 /\ IsElement(kids[i])
                 /\ kids[i] = IF IsElement(flat[i]) THEN flat[i]
                              ELSE createTextElement(flat[i])

\* the entries of an element list that are elements
Present(elements) == SelectSeq(elements, Truthy)

\* C24: after reconcileChildren(F, elements) the chain F.child, .sibling, ...
\* holds one new fiber per element of the list, in list order, also when the
\* list has an empty entry before later elements.
C24_OneFiberPerElement ==
    wipRoot # Null =>
        \A f \in Range(processed) :
            LET els == Present(ElementsOf(fibers, f))
                nc  == Chain(fibers, fibers[f].child)
            IN /\ Len(nc) = Len(els)
               /\ \A i \in 1..Len(nc) :
                     /\ fibers[nc[i]].type = els[i].type
                     /\ fibers[nc[i]].props = els[i].props

RECURSIVE Alternates(_, _)
\* the fibers a fiber replaced, commit by commit
Alternates(fs, fiber) ==
    IF fs[fiber].alternate = Null THEN {}
    ELSE {fs[fiber].alternate} \cup Alternates(fs, fs[fiber].alternate)

\* the update a closure kept from an earlier render hands to its setter, as a
\* timer set by an effect that ran once does: setCount(5)
StaleUpdate == Num(5)

\* a closure created in an earlier committed render calls the setter it captured
CallStaleSetter ==
    /\ starts < MaxStarts
    /\ currentRoot # Null
    /\ \E f \in Alternates(fibers, CounterFiber(fibers, currentRoot)) :
          /\ Put(setState(Reclaim(State), f, 1, StaleUpdate))
          /\ shadow' = setState(Reclaim(shadow), f, 1, StaleUpdate)
    /\ starts' = starts + 1

\* the one-tree program with closures that outlive the render they were created
\* in, under fair idle callbacks
NextStale == RenderFair \/ FireEvent \/ CallStaleSetter \/ WorkLoop

SpecStale == Init /\ [][NextStale]_vars /\ WF_vars(WorkLoop)

\* C25: an update handed to a setter that was captured in an earlier committed
\* render, after one or more later commits, is applied: a later commit consumes it
\* and shows a value that incorporates it.
C25_StaleSetterUpdateApplied ==
    (\E i \in 1..Len(pass.calls) : pass.calls[i] = StaleUpdate)
        ~> (/\ \E i \in 1..Len(committed.pass.calls) :
                  committed.pass.calls[i] = StaleUpdate
            /\ CounterHook(fibers, currentRoot).state =
                  InCallOrder(ValueBefore(fibers, currentRoot), committed.pass.calls))

\* an effect callback of the latest commit called its setter, and the update has
\* not been consumed by a commit since
EffectUpdatePending ==
    /\ pass.calls # <<>>
    /\ \E i \in 1..Len(fxLog) :
          /\ fxLog[i].run = "callback"
          /\ \/ /\ fxLog[i].fn.fn = "syncEffect"
                /\ fibers[fxLog[i].fn.fiber].hooks[1].state = Num(1)
             \/ /\ fxLog[i].fn.fn = "initEffect"
                /\ fibers[fxLog[i].fn.fiber].hooks[1].state = Num(0)

\* a commit has consumed the updates handed to setters: its tree was rendered
\* against the tree committed before it and shows a value that incorporates them
EffectUpdateShown ==
    /\ pass.calls = <<>> /\ committed.pass.calls # <<>>
    /\ currentRoot = committed.root
    /\ fibers[currentRoot].alternate # Null
    /\ CounterHook(fibers, currentRoot) # Undefined
    /\ LET old == fibers[CounterFiber(fibers, currentRoot)].alternate
       IN old # Null /\ fibers[old].hooks # <<>>
    /\ CounterHook(fibers, currentRoot).state =
          InCallOrder(ValueBefore(fibers, currentRoot), committed.pass.calls)

\* C26: a setter called from inside an effect callback during a commit, the first
\* or a later one, enqueues its update and leads, under fair idle callbacks, to a
\* further commit that was rendered against the tree just committed and whose hook
\* value incorporates the update.
C26_EffectSetterReachesCommit == EffectUpdatePending ~> EffectUpdateShown

\* the work loop is invoked while a unit of a pass is pending
InvokedWithUnit ==
    /\ starts' = starts
    /\ nextUnitOfWork # Null /\ wipRoot # Null

\* C27: a work-loop invocation that finds a pending unit processes one unit at
\* least, whatever the deadline reports, and commits in the invocation in which the
\* last unit completes; so a pending pass that is not replaced by a new render is
\* committed after finitely many invocations.
C27_InvocationProgresses ==
    /\ [][InvokedWithUnit =>
             /\ Len(processed') > Len(processed)
             /\ SubSeq(processed', 1, Len(processed)) = processed
             /\ nextUnitOfWork' = Null =>
                   /\ committed'.n = committed.n + 1
                   /\ committed'.root = wipRoot /\ wipRoot' = Null]_vars
    /\ \A k \in 0..MaxStarts :
          (wipRoot # Null /\ starts = k) ~> (wipRoot = Null \/ starts > k)

\* a pass of six units or more was committed by an invocation that found it
\* suspended
C27_Witness ==
    /\ AfterCommit /\ currentRoot = committed.root
    /\ committed.pass.yielded
    /\ Len(processed) >= 6

\* C28: an update enqueued by a setter of the latest committed render is applied
\* once to the committed state, however often the render that consumes it is
\* restarted: the queue of the committed hook holds the updates handed over since
\* its commit, each commit shows the committed value with that whole queue
\* applied to it, and the hook it commits starts with an empty queue, so that no
\* later render applies the updates again.
C28_UpdateAppliedOnce ==
    /\ [](currentRoot # Null =>
             CounterHook(fibers, currentRoot).queue = pass.calls)
    /\ [][(committed'.n # committed.n /\ currentRoot # Null) =>
             CounterHook(fibers', currentRoot').state =
                 InCallOrder(CounterHook(fibers, currentRoot).state,
                             CounterHook(fibers, currentRoot).queue)]_vars

\* a commit that shows two updates, each applied once, after the render that
\* consumed the first was partly processed and restarted
C28_Witness ==
    /\ committed.n >= 2 /\ currentRoot = committed.root
    /\ committed.pass.abandoned /\ committed.pass.calls # <<>>
    /\ pass.calls = <<>>
    /\ CounterHook(fibers, currentRoot).state = Num(2)

\* the host nodes the latest commit removed, in order
Removed ==
    SelectSeq(hostLog, LAMBDA e : e.op = "remove")

\* C29: at every commit the pending-deletion list holds only fibers of the tree
\* being superseded that the committed pass marked, none of an abandoned pass, no
\* fiber twice and no fiber below another listed fiber; no host node is removed
\* twice, and every removal finds the node under the host parent it is removed
\* from, so that no commit stops at a removal.
C29_DeletionListIsOfThisPass ==
    committed.n >= 1 =>
        LET old  == fibers[committed.root].alternate
            list == committed.deletions
        IN
        /\ Range(list) \subseteq TreeOf(fibers, old)
        /\ Range(list) = UNION {Unmatched(fibers, w) : w \in Range(committed.order)}
        /\ Len(list) = Cardinality(Range(list))
        /\ \A d, e \in Range(list) : e \notin TreeOf(fibers, fibers[d].child)
        /\ Len(Removed) = Cardinality({Removed[i].node : i \in 1..Len(Removed)})
        /\ \A i \in 1..Len(Removed) :
              \E d \in Range(list) : Removed[i].node \in SubtreeDoms(fibers, d)
        \* a commit that stopped at a removal has left wipRoot as it was
        /\ wipRoot # committed.root

\* the units of work a step has processed
UnitsOfStep ==
    IF processed' = processed THEN {}
    ELSE IF Len(processed') > Len(processed)
            /\ SubSeq(processed', 1, Len(processed)) = processed
         THEN {processed'[i] : i \in (Len(processed) + 1)..Len(processed')}
         ELSE Range(processed')

\* C30: a pending unit of work is a fiber of the tree under wipRoot, which is then
\* set and is not the committed root; and every unit a step processes is a fiber
\* of the tree under the wipRoot the step found, never one of the committed tree
\* or of a tree that has no root to be committed by.
C30_UnitOfWorkInWipTree ==
    /\ [](nextUnitOfWork # Null =>
             /\ wipRoot # Null /\ wipRoot # currentRoot
             /\ nextUnitOfWork \in TreeOf(fibers, wipRoot)
             /\ nextUnitOfWork \notin TreeOf(fibers, currentRoot))
    /\ [][UnitsOfStep # {} =>
             /\ wipRoot # Null /\ wipRoot # currentRoot
             /\ UnitsOfStep \subseteq TreeOf(fibers', wipRoot)
             /\ UnitsOfStep \cap TreeOf(fibers, currentRoot) = {}]_vars

\* C31: a cleanup handle is invoked only in a commit that runs, right after it,
\* the effect callback of a fiber of the committed tree that was kept from the
\* tree before, and the handle is one that fiber's line of alternates returned;
\* no handle held by a fiber that a commit deleted is invoked, in that commit or
\* in a later one.
C31_CleanupOnlyOnRerun ==
    LET \* the fibers the commits so far have deleted: those listed and those below
        Gone == UNION {{d} \cup TreeOf(fibers, fibers[d].child) : d \in committed.gone}
        \* the cleanup handles the effect hooks of a fiber hold
        HandlesOf(f) ==
            {fibers[f].hooks[k].cancel :
                k \in {h \in 1..Len(fibers[f].hooks) : fibers[f].hooks[h].tag = "EFFECT"}}
            \ {Undefined}
    IN
    \A i \in 1..Len(fxLog) :
        fxLog[i].run = "cleanup" =>
            /\ i < Len(fxLog) /\ fxLog[i + 1].run = "callback"
            /\ LET w == fxLog[i + 1].fn.fiber IN
               /\ w \in TreeOf(fibers, committed.root)
               /\ fxLog[i].fn.fiber \in Alternates(fibers, w)
               /\ fxLog[i].fn \in HandlesOf(fibers[w].alternate)
            /\ \A d \in Gone : fxLog[i].fn \notin HandlesOf(d)

====
